---- MODULE Spec2Model ----
(***************************************************************************)
(* Model of the jelly-player:// protocol handler (batch version): the      *)
(* payload sanitizer, the Base64/JSON decoder (parsePayload) and the       *)
(* sequential dispatch loop of main.                                       *)
(*                                                                         *)
(* Strings are sequences of character codes (ASCII / Unicode code points), *)
(* decoded data are sequences of bytes 0..255.                             *)
(***************************************************************************)
EXTENDS Integers, Sequences, FiniteSets, TLC

(***************************************************************************)
(* Character codes: the ASCII code of each printable character, written    *)
(* as a one-character string (the grave accent, 96, cannot be written).    *)
(***************************************************************************)
OrdTable ==
  (" " :> 32) @@ ("!" :> 33) @@ ("\"" :> 34) @@ ("#" :> 35) @@ ("$" :> 36) @@
  ("%" :> 37) @@ ("&" :> 38) @@ ("'" :> 39) @@ ("(" :> 40) @@ (")" :> 41) @@
  ("*" :> 42) @@ ("+" :> 43) @@ ("," :> 44) @@ ("-" :> 45) @@ ("." :> 46) @@
  ("/" :> 47) @@ ("0" :> 48) @@ ("1" :> 49) @@ ("2" :> 50) @@ ("3" :> 51) @@
  ("4" :> 52) @@ ("5" :> 53) @@ ("6" :> 54) @@ ("7" :> 55) @@ ("8" :> 56) @@
  ("9" :> 57) @@ (":" :> 58) @@ (";" :> 59) @@ ("<" :> 60) @@ ("=" :> 61) @@
  (">" :> 62) @@ ("?" :> 63) @@ ("@" :> 64) @@ ("A" :> 65) @@ ("B" :> 66) @@
  ("C" :> 67) @@ ("D" :> 68) @@ ("E" :> 69) @@ ("F" :> 70) @@ ("G" :> 71) @@
  ("H" :> 72) @@ ("I" :> 73) @@ ("J" :> 74) @@ ("K" :> 75) @@ ("L" :> 76) @@
  ("M" :> 77) @@ ("N" :> 78) @@ ("O" :> 79) @@ ("P" :> 80) @@ ("Q" :> 81) @@
  ("R" :> 82) @@ ("S" :> 83) @@ ("T" :> 84) @@ ("U" :> 85) @@ ("V" :> 86) @@
  ("W" :> 87) @@ ("X" :> 88) @@ ("Y" :> 89) @@ ("Z" :> 90) @@ ("[" :> 91) @@
  ("\\" :> 92) @@ ("]" :> 93) @@ ("^" :> 94) @@ ("_" :> 95) @@ ("a" :> 97) @@
  ("b" :> 98) @@ ("c" :> 99) @@ ("d" :> 100) @@ ("e" :> 101) @@ ("f" :> 102) @@
  ("g" :> 103) @@ ("h" :> 104) @@ ("i" :> 105) @@ ("j" :> 106) @@ ("k" :> 107) @@
  ("l" :> 108) @@ ("m" :> 109) @@ ("n" :> 110) @@ ("o" :> 111) @@ ("p" :> 112) @@
  ("q" :> 113) @@ ("r" :> 114) @@ ("s" :> 115) @@ ("t" :> 116) @@ ("u" :> 117) @@
  ("v" :> 118) @@ ("w" :> 119) @@ ("x" :> 120) @@ ("y" :> 121) @@ ("z" :> 122) @@
  ("{" :> 123) @@ ("|" :> 124) @@ ("}" :> 125) @@ ("~" :> 126)

Ord(c) == OrdTable[c]

\* A function on 1..n as an enumerated sequence, its elements computed once.
AsSeq(f) == f \o << >>

\* A string literal, written one character per element, as character codes.
S(lit) == AsSeq([i \in 1..Len(lit) |-> Ord(lit[i])])

IsUpper(r) == r >= Ord("A") /\ r <= Ord("Z")
IsLower(r) == r >= Ord("a") /\ r <= Ord("z")
IsDigit(r) == r >= Ord("0") /\ r <= Ord("9")

HasPrefix(s, p) == Len(s) >= Len(p) /\ SubSeq(s, 1, Len(p)) = p

TrimPrefix(s, p) == IF HasPrefix(s, p) THEN SubSeq(s, Len(p) + 1, Len(s)) ELSE s

SeqRepeat(c, n) == AsSeq([i \in 1..n |-> c])

(***************************************************************************)
(* UTF-8, as unicode/utf8 decodes and encodes it.  A Go string is a        *)
(* sequence of bytes; the library reads runes from it where it says so.    *)
(***************************************************************************)
\* s has a byte at k and it lies in lo..hi.
ByteIn(s, k, lo, hi) == k <= Len(s) /\ s[k] >= lo /\ s[k] <= hi

\* The length of the valid encoding that starts at s[k], or 0: the decoder
\* then reads the one byte as U+FFFD.
RuneWidth(s, k) ==
  IF s[k] < 128 THEN 1
  ELSE IF s[k] >= 194 /\ s[k] <= 223
    THEN (IF ByteIn(s, k + 1, 128, 191) THEN 2 ELSE 0)
  ELSE IF s[k] >= 224 /\ s[k] <= 239
    THEN (IF ByteIn(s, k + 1, IF s[k] = 224 THEN 160 ELSE 128,
                              IF s[k] = 237 THEN 159 ELSE 191)
             /\ ByteIn(s, k + 2, 128, 191) THEN 3 ELSE 0)
  ELSE IF s[k] >= 240 /\ s[k] <= 244
    THEN (IF ByteIn(s, k + 1, IF s[k] = 240 THEN 144 ELSE 128,
                              IF s[k] = 244 THEN 143 ELSE 191)
             /\ ByteIn(s, k + 2, 128, 191) /\ ByteIn(s, k + 3, 128, 191) THEN 4 ELSE 0)
  ELSE 0

\* The rune of the valid encoding of w bytes at s[k].
RuneAt(s, k, w) ==
  IF w = 1 THEN s[k]
  ELSE IF w = 2 THEN (s[k] % 32) * 64 + (s[k + 1] % 64)
  ELSE IF w = 3 THEN (s[k] % 16) * 4096 + (s[k + 1] % 64) * 64 + (s[k + 2] % 64)
  ELSE (s[k] % 8) * 262144 + (s[k + 1] % 64) * 4096 + (s[k + 2] % 64) * 64
       + (s[k + 3] % 64)

\* utf8.AppendRune for a rune that is no surrogate.
EncodeRune(r) ==
  IF r < 128 THEN << r >>
  ELSE IF r < 2048 THEN << 192 + (r \div 64), 128 + (r % 64) >>
  ELSE IF r < 65536
    THEN << 224 + (r \div 4096), 128 + ((r \div 64) % 64), 128 + (r % 64) >>
  ELSE << 240 + (r \div 262144), 128 + ((r \div 4096) % 64),
          128 + ((r \div 64) % 64), 128 + (r % 64) >>

\* U+FFFD, which stands for what is no valid encoding.
RuneError == 65533

(***************************************************************************)
(* encoding/base64, StdEncoding: the 64-character alphabet, '=' padding.   *)
(***************************************************************************)
\* decodeMap of "ABC...XYZabc...xyz0123456789+/": the 6-bit value of a
\* character, 255 for a character outside the alphabet.
DecodeMap(c) ==
  IF IsUpper(c) THEN c - Ord("A")
  ELSE IF IsLower(c) THEN c - Ord("a") + 26
  ELSE IF IsDigit(c) THEN c - Ord("0") + 52
  ELSE IF c = Ord("+") THEN 62
  ELSE IF c = Ord("/") THEN 63
  ELSE 255

InAlphabet(c) == DecodeMap(c) # 255

PadChar == Ord("=")

B64Error == [err |-> TRUE, data |-> << >>]

\* The three bytes of one quantum of four 6-bit values (dlen - 1 of them
\* are data when the quantum is padded).
QuantumBytes(v0, v1, v2, v3, dlen) ==
  LET val == v0 * 262144 + v1 * 4096 + v2 * 64 + v3
      all == << val \div 65536, (val \div 256) % 256, val % 256 >>
  IN  SubSeq(all, 1, dlen - 1)

\* How the quantum of four characters at src[q..q+3] decodes: 4 for four
\* alphabet characters, 3 for "xxx=" and 2 for "xx==" (both only as the last
\* quantum), 0 for corrupt input.
QuantumLen(src, q) ==
  LET last == q + 3 = Len(src) IN
  IF ~InAlphabet(src[q]) \/ ~InAlphabet(src[q + 1]) THEN 0
  ELSE IF InAlphabet(src[q + 2]) /\ InAlphabet(src[q + 3]) THEN 4
  ELSE IF InAlphabet(src[q + 2]) /\ src[q + 3] = PadChar /\ last THEN 3
  ELSE IF src[q + 2] = PadChar /\ src[q + 3] = PadChar /\ last THEN 2
  ELSE 0

\* The 6-bit value at src[k], 0 for padding.
SixBits(src, k) == IF InAlphabet(src[k]) THEN DecodeMap(src[k]) ELSE 0

\* Byte number b (from 1) of the decoded data.
DecodedByte(src, b) ==
  LET q == 4 * ((b - 1) \div 3) + 1 IN
  QuantumBytes(SixBits(src, q), SixBits(src, q + 1), SixBits(src, q + 2),
               SixBits(src, q + 3), 4)[((b - 1) % 3) + 1]

\* base64.StdEncoding.DecodeString, without the line breaks it ignores: the
\* input is whole quanta of four characters, and '=' may only close the last
\* one.  Anything else is a CorruptInputError.
DecodeQuanta(src) ==
  LET n == Len(src)
      quanta == {4 * k + 1 : k \in 0..((n \div 4) - 1)}
      dlen == IF n = 0 THEN 4 ELSE QuantumLen(src, n - 3)
  IN  IF n % 4 # 0 \/ \E q \in quanta : QuantumLen(src, q) = 0 THEN B64Error
      ELSE [err |-> FALSE,
            data |-> AsSeq([b \in 1..(3 * (n \div 4) - (4 - dlen)) |->
                              DecodedByte(src, b)])]

DecodeString(s) == DecodeQuanta(SelectSeq(s, LAMBDA c : c \notin {10, 13}))

(***************************************************************************)
(* The sanitizer of parsePayload ("Vacuum Cleaner"), one rune at a time.   *)
(* The switch takes the first matching case: '/' matches the third case,   *)
(* so the fourth case (discard '/') is never taken.                        *)
(***************************************************************************)
\* The sanitizer switch with a default case that writes the rune.
CleanRuneKeepsOthers(r) ==
  CASE IsUpper(r) \/ IsLower(r) \/ IsDigit(r) -> << r >>
    [] r = Ord("-") \/ r = Ord("+")            -> << Ord("+") >>
    [] r = Ord("_") \/ r = Ord("/")            -> << Ord("/") >>
    [] OTHER                                   -> << r >>

\* The sanitizer switch with '+' left to the discarded characters.
CleanRuneDropsPlus(r) ==
  CASE IsUpper(r) \/ IsLower(r) \/ IsDigit(r) -> << r >>
    [] r = Ord("-")                            -> << Ord("+") >>
    [] r = Ord("_") \/ r = Ord("/")            -> << Ord("/") >>
    [] OTHER                                   -> << >>

\* The sanitizer switch without the case of the underscore.
CleanRuneDropsUnderscore(r) ==
  CASE IsUpper(r) \/ IsLower(r) \/ IsDigit(r) -> << r >>
    [] r = Ord("-") \/ r = Ord("+")            -> << Ord("+") >>
    [] r = Ord("/")                            -> << Ord("/") >>
    [] OTHER                                   -> << >>

CleanRune(r) ==
  CASE IsUpper(r) \/ IsLower(r) \/ IsDigit(r) -> << r >>
    [] r = Ord("-") \/ r = Ord("+")            -> << Ord("+") >>
    [] r = Ord("_") \/ r = Ord("/")            -> << Ord("/") >>
    [] OTHER                                   -> << >>

\* Step 1: the runes in order, each replaced by what the switch writes.
Clean(rawStr) ==
  LET kept == SelectSeq(rawStr, LAMBDA r : CleanRune(r) # << >>) IN
  AsSeq([k \in 1..Len(kept) |-> CleanRune(kept[k])[1]])
\* The padding step left out.
PadB64None(cleanStr) == cleanStr

\* Step 2: pad with '=' to a multiple of four.
PadB64(cleanStr) ==
  LET m == Len(cleanStr) % 4 IN
  IF m # 0 THEN cleanStr \o SeqRepeat(PadChar, 4 - m) ELSE cleanStr

Sanitize(rawStr) == PadB64(Clean(rawStr))

(***************************************************************************)
(* Step 4: strings.TrimSpace, then strings.Trim(jsonStr, "\x00\x0f").      *)
(***************************************************************************)
\* unicode.IsSpace.
UnicodeSpace ==
  (9..13) \cup {32, 133, 160, 5760} \cup (8192..8202) \cup {8232, 8233, 8239, 8287, 12288}

\* The width of the space rune s begins with, 0 if it begins with none
\* (utf8.DecodeRuneInString).
SpaceWidth(s, w) == IF w > 0 /\ RuneAt(s, 1, w) \in UnicodeSpace THEN w ELSE 0

LeftSpaceWidth(s) == IF Len(s) = 0 THEN 0 ELSE SpaceWidth(s, RuneWidth(s, 1))

\* The width of the space rune s ends with, 0 if it ends with none
\* (utf8.DecodeLastRuneInString: back to the nearest byte that starts a
\* rune, whose encoding must reach the end exactly).
RightSpaceWidth(s) ==
  LET n == Len(s) IN
  IF n = 0 THEN 0
  ELSE IF s[n] < 128 THEN (IF s[n] \in UnicodeSpace THEN 1 ELSE 0)
  ELSE IF n >= 2 /\ ~ByteIn(s, n - 1, 128, 191)
    THEN (IF RuneWidth(s, n - 1) = 2 /\ RuneAt(s, n - 1, 2) \in UnicodeSpace
          THEN 2 ELSE 0)
  ELSE IF n >= 3 /\ ~ByteIn(s, n - 2, 128, 191)
    THEN (IF RuneWidth(s, n - 2) = 3 /\ RuneAt(s, n - 2, 3) \in UnicodeSpace
          THEN 3 ELSE 0)
  ELSE 0

RECURSIVE TrimLeftSpace(_)
TrimLeftSpace(s) ==
  IF LeftSpaceWidth(s) = 0 THEN s
  ELSE TrimLeftSpace(SubSeq(s, LeftSpaceWidth(s) + 1, Len(s)))

RECURSIVE TrimRightSpace(_)
TrimRightSpace(s) ==
  IF RightSpaceWidth(s) = 0 THEN s
  ELSE TrimRightSpace(SubSeq(s, 1, Len(s) - RightSpaceWidth(s)))

\* strings.TrimSpace.
TrimSpace(s) == TrimRightSpace(TrimLeftSpace(s))

\* The cutset "\x00\x0f" of strings.Trim, which trims it byte by byte.
TrimCutset == {0, 15}

RECURSIVE TrimLeftSet(_, _)
TrimLeftSet(s, cut) ==
  IF Len(s) > 0 /\ s[1] \in cut THEN TrimLeftSet(Tail(s), cut) ELSE s

RECURSIVE TrimRightSet(_, _)
TrimRightSet(s, cut) ==
  IF Len(s) > 0 /\ s[Len(s)] \in cut THEN TrimRightSet(SubSeq(s, 1, Len(s) - 1), cut)
  ELSE s

TrimSet(s, cut) == TrimRightSet(TrimLeftSet(s, cut), cut)

CleanJSON(data) == TrimSet(TrimSpace(data), TrimCutset)

(***************************************************************************)
(* encoding/json: the syntax of a JSON text.  A value is a record          *)
(* [t, s, a]: t its kind, s the characters of a string, a the elements of  *)
(* an array or the << key, value >> members of an object.                  *)
(***************************************************************************)
JVal(t, s, a) == [t |-> t, s |-> s, a |-> a]

JNull == JVal("null", << >>, << >>)

JFail == [ok |-> FALSE, v |-> JNull, next |-> 1]

JOk(v, next) == [ok |-> TRUE, v |-> v, next |-> next]

JsonSpace == {9, 10, 13, 32}

RECURSIVE SkipSpace(_, _)
SkipSpace(s, i) == IF i <= Len(s) /\ s[i] \in JsonSpace THEN SkipSpace(s, i + 1) ELSE i

LitAt(s, i, lit) == i + Len(lit) - 1 <= Len(s) /\ SubSeq(s, i, i + Len(lit) - 1) = lit

\* The escapes \" \\ \/ \b \f \n \r \t and what they stand for.
Unescape ==
  (Ord("\"") :> Ord("\"")) @@ (Ord("\\") :> Ord("\\")) @@ (Ord("/") :> Ord("/")) @@
  (Ord("b") :> 8) @@ (Ord("f") :> 12) @@ (Ord("n") :> 10) @@ (Ord("r") :> 13) @@
  (Ord("t") :> 9)

\* From just after the opening quote.  A \uXXXX escape writes its rune in
\* UTF-8, and bytes that are no valid UTF-8 are replaced by U+FFFD.
\* The value of a hexadecimal digit, -1 for any other byte.
HexValue(c) ==
  IF c >= 48 /\ c <= 57 THEN c - 48
  ELSE IF c >= 97 /\ c <= 102 THEN c - 87
  ELSE IF c >= 65 /\ c <= 70 THEN c - 55
  ELSE -1

\* getu4: the number a \uXXXX escape at s[k] writes, -1 if there is none.
Getu4(s, k) ==
  IF k + 5 <= Len(s) /\ s[k] = Ord("\\") /\ s[k + 1] = Ord("u")
     /\ \A j \in 2..5 : HexValue(s[k + j]) >= 0
  THEN HexValue(s[k + 2]) * 4096 + HexValue(s[k + 3]) * 256
       + HexValue(s[k + 4]) * 16 + HexValue(s[k + 5])
  ELSE -1

\* utf16.IsSurrogate and utf16.DecodeRune.
IsSurrogate(r) == r >= 55296 /\ r <= 57343

DecodeSurrogates(r1, r2) ==
  IF r1 >= 55296 /\ r1 <= 56319 /\ r2 >= 56320 /\ r2 <= 57343
  THEN (r1 - 55296) * 1024 + (r2 - 56320) + 65536
  ELSE RuneError

\* The \uXXXX escape at s[k]: a surrogate takes the escape that follows it
\* when the two make a pair, and is U+FFFD otherwise.
PairAt(s, k) == DecodeSurrogates(Getu4(s, k), Getu4(s, k + 6))

EscapedRune(s, k) ==
  IF IsSurrogate(Getu4(s, k)) THEN PairAt(s, k) ELSE Getu4(s, k)

EscapeLen(s, k) ==
  IF IsSurrogate(Getu4(s, k)) /\ PairAt(s, k) # RuneError THEN 12 ELSE 6

RECURSIVE ScanString(_, _, _)
ScanString(s, i, acc) ==
  IF i > Len(s) THEN JFail
  ELSE IF s[i] = Ord("\"") THEN JOk(JVal("str", acc, << >>), i + 1)
  ELSE IF s[i] = Ord("\\") THEN
    IF i + 1 <= Len(s) /\ s[i + 1] \in DOMAIN Unescape
    THEN ScanString(s, i + 2, Append(acc, Unescape[s[i + 1]]))
    ELSE IF Getu4(s, i) >= 0
    THEN ScanString(s, i + EscapeLen(s, i), acc \o EncodeRune(EscapedRune(s, i)))
    ELSE JFail
  ELSE IF s[i] < 32 THEN JFail
  ELSE IF RuneWidth(s, i) = 0 THEN ScanString(s, i + 1, acc \o EncodeRune(RuneError))
  ELSE ScanString(s, i + RuneWidth(s, i), acc \o SubSeq(s, i, i + RuneWidth(s, i) - 1))

RECURSIVE SkipDigits(_, _)
SkipDigits(s, i) == IF i <= Len(s) /\ IsDigit(s[i]) THEN SkipDigits(s, i + 1) ELSE i

IsAt(s, i, chars) == i <= Len(s) /\ s[i] \in chars

\* A number: -? (0 | [1-9][0-9]*) (. [0-9]+)? ([eE] [+-]? [0-9]+)?
\* Each part is scanned from where the one before it ended.
ExponentEnd(s, i) ==
  IF ~IsAt(s, i, {Ord("e"), Ord("E")}) THEN i
  ELSE IF IsAt(s, i + 1, {Ord("+"), Ord("-")})
    THEN (IF IsAt(s, i + 2, 48..57) THEN SkipDigits(s, i + 2) ELSE 0)
  ELSE (IF IsAt(s, i + 1, 48..57) THEN SkipDigits(s, i + 1) ELSE 0)

FractionEnd(s, i) ==
  IF ~IsAt(s, i, {Ord(".")}) THEN ExponentEnd(s, i)
  ELSE IF IsAt(s, i + 1, 48..57) THEN ExponentEnd(s, SkipDigits(s, i + 1))
  ELSE 0

IntegerEnd(s, i) ==
  IF IsAt(s, i, {Ord("0")}) THEN FractionEnd(s, i + 1)
  ELSE IF IsAt(s, i, 49..57) THEN FractionEnd(s, SkipDigits(s, i))
  ELSE 0

NumberTo(s, i, end) ==
  IF end = 0 THEN JFail ELSE JOk(JVal("num", SubSeq(s, i, end - 1), << >>), end)

ScanNumber(s, i) ==
  NumberTo(s, i, IntegerEnd(s, IF IsAt(s, i, {Ord("-")}) THEN i + 1 ELSE i))

RECURSIVE ScanValue(_, _)
RECURSIVE ScanElements(_, _, _)
RECURSIVE ScanMembers(_, _, _)

\* An array: after an element, at j, ',' goes on and ']' ends it.
ElementsSep(s, acc, j) ==
  IF j > Len(s) THEN JFail
  ELSE IF s[j] = Ord(",") THEN ScanElements(s, j + 1, acc)
  ELSE IF s[j] = Ord("]") THEN JOk(JVal("arr", << >>, acc), j + 1)
  ELSE JFail

ElementsNext(s, acc, e) ==
  IF ~e.ok THEN JFail ELSE ElementsSep(s, Append(acc, e.v), SkipSpace(s, e.next))

ScanElements(s, i, acc) == ElementsNext(s, acc, ScanValue(s, i))

\* An object: "key" : value, then, at j, ',' goes on and '}' ends it.
MembersSep(s, acc, j) ==
  IF j > Len(s) THEN JFail
  ELSE IF s[j] = Ord(",") THEN ScanMembers(s, j + 1, acc)
  ELSE IF s[j] = Ord("}") THEN JOk(JVal("obj", << >>, acc), j + 1)
  ELSE JFail

MemberNext(s, acc, name, e) ==
  IF ~e.ok THEN JFail
  ELSE MembersSep(s, Append(acc, << name, e.v >>), SkipSpace(s, e.next))

MemberValue(s, acc, name, c) ==
  IF c > Len(s) \/ s[c] # Ord(":") THEN JFail
  ELSE MemberNext(s, acc, name, ScanValue(s, c + 1))

MemberColon(s, acc, key) ==
  IF ~key.ok THEN JFail ELSE MemberValue(s, acc, key.v.s, SkipSpace(s, key.next))

MemberKey(s, acc, k) ==
  IF k > Len(s) \/ s[k] # Ord("\"") THEN JFail
  ELSE MemberColon(s, acc, ScanString(s, k + 1, << >>))

ScanMembers(s, i, acc) == MemberKey(s, acc, SkipSpace(s, i))

\* The value that starts at i, with j the first non-space after i.
ValueAt(s, i, j) ==
  IF i > Len(s) THEN JFail
  ELSE IF s[i] = Ord("[") THEN
    (IF IsAt(s, j, {Ord("]")}) THEN JOk(JVal("arr", << >>, << >>), j + 1)
     ELSE ScanElements(s, i + 1, << >>))
  ELSE IF s[i] = Ord("{") THEN
    (IF IsAt(s, j, {Ord("}")}) THEN JOk(JVal("obj", << >>, << >>), j + 1)
     ELSE ScanMembers(s, i + 1, << >>))
  ELSE IF s[i] = Ord("\"") THEN ScanString(s, i + 1, << >>)
  ELSE IF LitAt(s, i, S(<< "n", "u", "l", "l" >>)) THEN JOk(JNull, i + 4)
  ELSE IF LitAt(s, i, S(<< "t", "r", "u", "e" >>)) THEN JOk(JVal("bool", << >>, << >>), i + 4)
  ELSE IF LitAt(s, i, S(<< "f", "a", "l", "s", "e" >>))
    THEN JOk(JVal("bool", << >>, << >>), i + 5)
  ELSE IF s[i] = Ord("-") \/ IsDigit(s[i]) THEN ScanNumber(s, i)
  ELSE JFail

ValueFrom(s, i) == ValueAt(s, i, SkipSpace(s, i + 1))

ScanValue(s, i0) == ValueFrom(s, SkipSpace(s, i0))

\* checkValid: one value, with only white space around it.
WholeText(text, r) ==
  IF r.ok /\ SkipSpace(text, r.next) = Len(text) + 1 THEN r ELSE JFail

ParseJSON(text) == WholeText(text, ScanValue(text, 1))

(***************************************************************************)
(* type Payload, and json.Unmarshal into a Payload or a []*Payload.        *)
(* A *Payload is [nil, v]: the nil pointer, or a pointer to v.             *)
(***************************************************************************)
ZeroPayload ==
  [Target |-> << >>, Url |-> << >>, Profile |-> << >>, Geometry |-> << >>,
   Title |-> << >>, Sub |-> << >>]

NilPtr == [nil |-> TRUE, v |-> ZeroPayload]

Ptr(p) == [nil |-> FALSE, v |-> p]

\* The struct tags, in field order.
FieldOrder == << "Target", "Url", "Profile", "Geometry", "Title", "Sub" >>

JsonKey ==
  [Target   |-> S(<< "m", "o", "d", "e" >>),
   Url      |-> S(<< "u", "r", "l" >>),
   Profile  |-> S(<< "p", "r", "o", "f", "i", "l", "e" >>),
   Geometry |-> S(<< "g", "e", "o", "m", "e", "t", "r", "y" >>),
   Title    |-> S(<< "t", "i", "t", "l", "e" >>),
   Sub      |-> S(<< "s", "u", "b" >>)]

OmitEmpty == {"Profile", "Geometry", "Title", "Sub"}

\* Keys match field names under Unicode simple case folding: besides the
\* ASCII letters, U+017F (long s) folds with s and U+212A (Kelvin) with k.
\* A key is valid UTF-8 here, ScanString made it so.
RECURSIVE FoldFrom(_, _)
FoldFrom(s, k) ==
  IF k > Len(s) THEN << >>
  ELSE IF s[k] = 197 /\ ByteIn(s, k + 1, 191, 191)
    THEN << Ord("s") >> \o FoldFrom(s, k + 2)
  ELSE IF s[k] = 226 /\ ByteIn(s, k + 1, 132, 132) /\ ByteIn(s, k + 2, 170, 170)
    THEN << Ord("k") >> \o FoldFrom(s, k + 3)
  ELSE << IF IsUpper(s[k]) THEN s[k] + 32 ELSE s[k] >> \o FoldFrom(s, k + 1)

Fold(s) == FoldFrom(s, 1)

FieldFor(key) ==
  IF \E f \in DOMAIN JsonKey : Fold(JsonKey[f]) = Fold(key)
  THEN CHOOSE f \in DOMAIN JsonKey : Fold(JsonKey[f]) = Fold(key)
  ELSE ""

\* The members of an object into the struct st.p: a string sets its field, a
\* null leaves it, any other value is an UnmarshalTypeError (decoding goes
\* on); an unknown key is skipped.
StoreMember(st, f, v) ==
  IF f = "" \/ v.t = "null" THEN st
  ELSE IF v.t = "str" THEN [st EXCEPT !.p[f] = v.s]
  ELSE [st EXCEPT !.err = TRUE]

RECURSIVE DecodeMembers(_, _, _)
DecodeMembers(members, k, st) ==
  IF k > Len(members) THEN st
  ELSE DecodeMembers(members, k + 1,
                     StoreMember(st, FieldFor(members[k][1]), members[k][2]))

\* A decoded value into a struct that holds p.
DecodeStruct(val, p) ==
  IF val.t = "obj" THEN DecodeMembers(val.a, 1, [err |-> FALSE, p |-> p])
  ELSE IF val.t = "null" THEN [err |-> FALSE, p |-> p]
  ELSE [err |-> TRUE, p |-> p]

\* One array element into a *Payload: null is the nil pointer, anything
\* else allocates a Payload and decodes into it.
ElementOf(d) == [err |-> d.err, ptr |-> Ptr(d.p)]

DecodeElement(val) ==
  IF val.t = "null" THEN [err |-> FALSE, ptr |-> NilPtr]
  ELSE ElementOf(DecodeStruct(val, ZeroPayload))

SliceOf(elems) ==
  [err |-> \E k \in 1..Len(elems) : elems[k].err,
   results |-> AsSeq([k \in 1..Len(elems) |-> elems[k].ptr])]

\* A decoded value r into results, a []*Payload (nil and empty slices are
\* both << >>).  On a type error the slice keeps what was decoded.
DecodeSlice(r, results) ==
  IF ~r.ok THEN [err |-> TRUE, results |-> results]
  ELSE IF r.v.t = "null" THEN [err |-> FALSE, results |-> << >>]
  ELSE IF r.v.t = "arr"
    THEN SliceOf(AsSeq([k \in 1..Len(r.v.a) |-> DecodeElement(r.v.a[k])]))
  ELSE [err |-> TRUE, results |-> results]

\* json.Unmarshal(text, &results).
UnmarshalSlice(text, results) == DecodeSlice(ParseJSON(text), results)

DecodePayload(r, single) ==
  IF ~r.ok THEN [err |-> TRUE, p |-> single] ELSE DecodeStruct(r.v, single)

\* json.Unmarshal(text, &single) with single a Payload.
UnmarshalPayload(text, single) == DecodePayload(ParseJSON(text), single)

(***************************************************************************)
(* parsePayload.  The result is the error (kind "none" for nil, with the   *)
(* strings its message carries), the returned list, and the intermediate   *)
(* strings of the run.                                                     *)
(***************************************************************************)
Prefix ==
  S(<< "j", "e", "l", "l", "y", "-", "p", "l", "a", "y", "e", "r", ":", "/", "/" >>)

NoError == [kind |-> "none", carries |-> << >>]

ParseResult(err, results, rawStr, cleanStr, data, jsonStr) ==
  [err |-> err, results |-> results, rawStr |-> rawStr, cleanStr |-> cleanStr,
   data |-> data, jsonStr |-> jsonStr]
\* The legacy branch forgetting to wrap the object into the list.
SmartUnmarshalNoWrap(rawStr, cleanStr, data, jsonStr, batch, legacy) ==
  IF ~batch.err THEN ParseResult(NoError, batch.results, rawStr, cleanStr, data, jsonStr)
  ELSE IF legacy.err
    THEN ParseResult([kind |-> "json", carries |-> << jsonStr >>],
                     << >>, rawStr, cleanStr, data, jsonStr)
  ELSE ParseResult(NoError, batch.results, rawStr, cleanStr, data, jsonStr)

\* Step 5: the array attempt, then the single object appended to results.
SmartUnmarshal(rawStr, cleanStr, data, jsonStr, batch, legacy) ==
  IF ~batch.err THEN ParseResult(NoError, batch.results, rawStr, cleanStr, data, jsonStr)
  ELSE IF legacy.err
    THEN ParseResult([kind |-> "json", carries |-> << jsonStr >>],
                     << >>, rawStr, cleanStr, data, jsonStr)
  ELSE ParseResult(NoError, Append(batch.results, Ptr(legacy.p)),
                   rawStr, cleanStr, data, jsonStr)

Deserialize(rawStr, cleanStr, data, jsonStr) ==
  SmartUnmarshal(rawStr, cleanStr, data, jsonStr,
                 UnmarshalSlice(jsonStr, << >>), UnmarshalPayload(jsonStr, ZeroPayload))

\* Steps 3 and 4: the decode error, or the cleaned JSON text.
Decoded(rawStr, cleanStr, dec) ==
  IF dec.err
  THEN ParseResult([kind |-> "base64", carries |-> << cleanStr >>],
                   << >>, rawStr, cleanStr, << >>, << >>)
  ELSE Deserialize(rawStr, cleanStr, dec.data, CleanJSON(dec.data))

Decode(rawStr, cleanStr) == Decoded(rawStr, cleanStr, DecodeString(cleanStr))

\* parsePayload without the scheme check of its first lines.
parsePayloadNoSchemeCheck(rawURI) ==
  Decode(TrimPrefix(rawURI, Prefix), Sanitize(TrimPrefix(rawURI, Prefix)))

parsePayload(rawURI) ==
  IF ~HasPrefix(rawURI, Prefix)
  THEN ParseResult([kind |-> "scheme", carries |-> << Prefix >>],
                   << >>, << >>, << >>, << >>, << >>)
  ELSE Decode(TrimPrefix(rawURI, Prefix), Sanitize(TrimPrefix(rawURI, Prefix)))

(***************************************************************************)
(* The player handlers: the command (path and argument vector) each        *)
(* builds.  exec.Command puts the name first in Args and, for a name       *)
(* without a directory, looks the program up: the command then holds the   *)
(* path found and the error of the lookup, which Start returns.            *)
(***************************************************************************)
\* filepath.VolumeName of a name without separators: a drive letter and a
\* colon.  path/filepath of Go 1.22 (and 1.20.11, 1.21.4) takes any byte for
\* the letter, the earlier ones an ASCII letter only: anyDrive tells which
\* library the build links.
HasVolume(name, anyDrive) ==
  /\ Len(name) >= 2
  /\ name[2] = Ord(":")
  /\ (anyDrive \/ IsUpper(name[1]) \/ IsLower(name[1]))

\* filepath.Base(name) == name on Windows: no separator and no volume.
IsBare(name, anyDrive) ==
  /\ name # << >>
  /\ \A k \in 1..Len(name) : name[k] \notin {Ord("/"), Ord("\\")}
  /\ ~HasVolume(name, anyDrive)

\* An absolute and a relative directory of the search path, and an
\* extension of PATHEXT.
SearchDir == S(<< "D", ":", "\\" >>)

RelDir == S(<< "b", "i", "n", "\\" >>)

PathExt == S(<< ".", "c", "o", "m" >>)

\* The directories exec.LookPath can find a bare name in: the current one
\* (filepath.Join(".", file) is the name itself), an absolute and a relative
\* one of the search path.
LookDirs == {<< >>, SearchDir, RelDir}

\* findExecutable: the file as named, or the file with an extension of
\* PATHEXT added when there is none as named.
FoundNames(name) == {name, name \o PathExt}

\* What exec.LookPath of a bare name can return on some system with some
\* library, as the path found (empty for none) and whether there is an
\* error: a file of FoundNames in an absolute directory of the search path,
\* without error; one in the current directory or in a relative directory
\* of the search path (without error before Go 1.19 or under
\* GODEBUG=execerrdot=0, with ErrDot otherwise); not found.
LookPaths(name) ==
  { [lp |-> SearchDir \o file, err |-> FALSE] : file \in FoundNames(name) }
  \cup { [lp |-> dir \o file, err |-> err] :
           dir \in LookDirs \ {SearchDir}, file \in FoundNames(name), err \in BOOLEAN }
  \cup { [lp |-> << >>, err |-> TRUE] }

\* The same for a name that is not bare: no lookup or the file as named,
\* the file with an extension added, or not found (lookExtensions, which
\* Command or Start calls depending on the library).
LookExtensions(name) ==
  { [lp |-> << >>, err |-> FALSE],
    [lp |-> name \o PathExt, err |-> FALSE],
    [lp |-> << >>, err |-> TRUE] }

\* What the lookup exec.Command makes for name can return.
Lookups(name) ==
  UNION { IF IsBare(name, anyDrive) THEN LookPaths(name) ELSE LookExtensions(name) :
            anyDrive \in BOOLEAN }

\* exec.Command(binPath, args...), look being what the lookup returns.
Command(binPath, args, look) ==
  [Path |-> IF look.lp # << >> THEN look.lp ELSE binPath,
   Args |-> << binPath >> \o args,
   Err  |-> look.err]

\* The current directory as lookExtensions writes it before a bare path.
DotDir == S(<< ".", "\\" >>)

\* cmd.Path after cmd.Start().  On Windows the os/exec of Go 1.19 to 1.21
\* stores the result of lookExtensions(cmd.Path, cmd.Dir) into cmd.Path,
\* which writes a path without directory as .\path; the other libraries
\* leave cmd.Path alone, and so does every one when cmd.Err is set, which
\* Start returns first.
StartPaths(command) ==
  {command.Path}
  \cup {DotDir \o command.Path :
          anyDrive \in {d \in BOOLEAN : ~command.Err /\ IsBare(command.Path, d)}}

Flag(name, value) == IF value # << >> THEN << name \o value >> ELSE << >>

ProfileFlag == S(<< "-", "-", "p", "r", "o", "f", "i", "l", "e", "=" >>)

GeometryFlag == S(<< "-", "-", "g", "e", "o", "m", "e", "t", "r", "y", "=" >>)

TitleFlag ==
  S(<< "-", "-", "f", "o", "r", "c", "e", "-", "m", "e", "d", "i", "a", "-",
       "t", "i", "t", "l", "e", "=" >>)

SubFlag == S(<< "-", "-", "s", "u", "b", "-", "f", "i", "l", "e", "=" >>)
\* buildMpvCmd with the URL appended after the flags.
buildMpvCmdUrlLast(binPath, p, look) ==
  Command(binPath,
          Flag(ProfileFlag, p.Profile) \o Flag(GeometryFlag, p.Geometry)
             \o Flag(TitleFlag, p.Title) \o Flag(SubFlag, p.Sub) \o << p.Url >>,
          look)

\* buildMpvCmd without the geometry lines.
buildMpvCmdNoGeometry(binPath, p, look) ==
  Command(binPath,
          << p.Url >> \o Flag(ProfileFlag, p.Profile)
             \o Flag(TitleFlag, p.Title) \o Flag(SubFlag, p.Sub),
          look)

buildMpvCmd(binPath, p, look) ==
  Command(binPath,
          << p.Url >> \o Flag(ProfileFlag, p.Profile) \o Flag(GeometryFlag, p.Geometry)
             \o Flag(TitleFlag, p.Title) \o Flag(SubFlag, p.Sub),
          look)

buildPotPlayerCmd(binPath, p, look) == Command(binPath, << p.Url >>, look)

Mpv == S(<< "m", "p", "v" >>)

PotPlayer == S(<< "p", "o", "t", "p", "l", "a", "y", "e", "r" >>)

Handlers == (Mpv :> "buildMpvCmd") @@ (PotPlayer :> "buildPotPlayerCmd")

CallHandler(handler, binPath, p, look) ==
  IF handler = "buildMpvCmd" THEN buildMpvCmd(binPath, p, look)
  ELSE buildPotPlayerCmd(binPath, p, look)

(***************************************************************************)
(* The producer of a URI: json.Marshal of a Payload (mode and url always,  *)
(* the other fields unless empty), of a list of them, and the URL-safe     *)
(* Base64 encoding named by the protocol specification.                    *)
(***************************************************************************)
\* The lower-case hexadecimal digit of n.
HexChar(n) == IF n < 10 THEN 48 + n ELSE 87 + n

\* \u00XX for the byte b.
HexEscape(b) ==
  << Ord("\\"), Ord("u"), Ord("0"), Ord("0"), HexChar(b \div 16), HexChar(b % 16) >>

\* The short escapes.  encoding/json writes \b and \f since Go 1.22 and
\* \u0008 and \u000c before: short tells which library the build links.
ShortEscapes(short) ==
  (Ord("\"") :> Ord("\"")) @@ (Ord("\\") :> Ord("\\")) @@ (10 :> Ord("n")) @@
  (13 :> Ord("r")) @@ (9 :> Ord("t")) @@
  (IF short THEN (8 :> Ord("b")) @@ (12 :> Ord("f")) ELSE << >>)

\* What json.Marshal writes for the byte b < 0x80: the byte, or its escape
\* if it is a control character, a quote, a backslash or one of < > &.
EscapeByte(b, short) ==
  IF b \in DOMAIN ShortEscapes(short) THEN << Ord("\\"), ShortEscapes(short)[b] >>
  ELSE IF b < 32 \/ b \in {Ord("<"), Ord(">"), Ord("&")} THEN HexEscape(b)
  ELSE << b >>

\* What it writes for the rune of w bytes at s[k], s[k] >= 0x80: the escape
\* of U+FFFD for what is no valid UTF-8, the escapes of U+2028 and U+2029
\* for these two, and the bytes of any other rune.
EscapeRune(s, k, w) ==
  IF w = 0 THEN << Ord("\\"), Ord("u"), Ord("f"), Ord("f"), Ord("f"), Ord("d") >>
  ELSE IF RuneAt(s, k, w) \in {8232, 8233}
    THEN << Ord("\\"), Ord("u"), Ord("2"), Ord("0"), Ord("2"), HexChar(RuneAt(s, k, w) % 16) >>
  ELSE SubSeq(s, k, k + w - 1)

RECURSIVE EscapeFrom(_, _, _)
EscapeFrom(s, k, short) ==
  IF k > Len(s) THEN << >>
  ELSE IF s[k] < 128 THEN EscapeByte(s[k], short) \o EscapeFrom(s, k + 1, short)
  ELSE EscapeRune(s, k, RuneWidth(s, k))
       \o EscapeFrom(s, k + (IF RuneWidth(s, k) = 0 THEN 1 ELSE RuneWidth(s, k)), short)

Quote(s, short) == << Ord("\"") >> \o EscapeFrom(s, 1, short) \o << Ord("\"") >>

RECURSIVE JoinFrom(_, _, _)
JoinFrom(parts, k, sep) ==
  IF k > Len(parts) THEN << >>
  ELSE (IF k > 1 THEN sep ELSE << >>) \o parts[k] \o JoinFrom(parts, k + 1, sep)

MarshalPayload(p, short) ==
  LET emitted == SelectSeq(FieldOrder, LAMBDA f : f \notin OmitEmpty \/ p[f] # << >>)
      members == AsSeq([k \in 1..Len(emitted) |->
                    Quote(JsonKey[emitted[k]], short) \o << Ord(":") >>
                    \o Quote(p[emitted[k]], short)])
  IN  << Ord("{") >> \o JoinFrom(members, 1, << Ord(",") >>) \o << Ord("}") >>

MarshalElement(ptr, short) ==
  IF ptr.nil THEN S(<< "n", "u", "l", "l" >>) ELSE MarshalPayload(ptr.v, short)

MarshalList(list, short) ==
  << Ord("[") >>
  \o JoinFrom(AsSeq([k \in 1..Len(list) |-> MarshalElement(list[k], short)]), 1,
              << Ord(",") >>)
  \o << Ord("]") >>

\* The URL-safe alphabet "ABC...XYZabc...xyz0123456789-_".
URLChar(v) ==
  IF v < 26 THEN Ord("A") + v
  ELSE IF v < 52 THEN Ord("a") + (v - 26)
  ELSE IF v < 62 THEN Ord("0") + (v - 52)
  ELSE IF v = 62 THEN Ord("-")
  ELSE Ord("_")

\* Character number k (from 1) of the unpadded base64url of bytes: 6 bits
\* of the 24 that its group of three bytes (zero-filled) holds.
URLCharAt(bytes, k) ==
  LET g == 3 * ((k - 1) \div 4)
      byte(j) == IF g + j <= Len(bytes) THEN bytes[g + j] ELSE 0
      val == byte(1) * 65536 + byte(2) * 256 + byte(3)
      shift == << 262144, 4096, 64, 1 >>[((k - 1) % 4) + 1]
  IN  URLChar((val \div shift) % 64)

\* base64url of bytes, with or without '=' padding.
EncodeURL(bytes, pad) ==
  LET n == Len(bytes)
      chars == 4 * (n \div 3) + (IF n % 3 = 0 THEN 0 ELSE (n % 3) + 1)
      body == AsSeq([k \in 1..chars |-> URLCharAt(bytes, k)])
  IN  IF pad /\ chars % 4 # 0 THEN body \o SeqRepeat(PadChar, 4 - (chars % 4)) ELSE body

(***************************************************************************)
(* Bounds and the inputs of an invocation.                                 *)
(***************************************************************************)
\* Longest batch a producer sends.
MaxBatch == 2

\* Longest hand-typed (not produced) text after the scheme prefix.
MaxLen == 3

Instr(target, url, profile, geometry, title, sub) ==
  [Target |-> target, Url |-> url, Profile |-> profile, Geometry |-> geometry,
   Title |-> title, Sub |-> sub]

\* Two mpv instructions with different geometry, one potplayer instruction
\* and one for a player that is not registered, whose title has characters
\* json.Marshal escapes (&, line feed) and one it does not (U+00E9).
Instructions ==
  { Instr(Mpv, S(<< "x", "/", "~", "~", "~" >>), << >>, S(<< "5", "0", "%", "+", "0" >>),
          << >>, << >>),
    Instr(Mpv, S(<< "x", "/", "?", "?", "?" >>), S(<< "m" >>), S(<< "5", "0", "%", "+", "9" >>),
          S(<< "T" >>), S(<< "s" >>)),
    Instr(PotPlayer, S(<< "x", "/", "c" >>), << >>, S(<< "g" >>), S(<< "P" >>), << >>),
    Instr(S(<< "v", "l", "c" >>), S(<< "x", "/", "d" >>), << >>, << >>,
          << Ord("&"), 10, 195, 169 >>, << >>) }

\* An mpv instruction whose fields hold every kind of character json.Marshal
\* escapes: < > & in the URL, backspace and form feed (written one way or
\* the other) and a control character in the title, quote, backslash and
\* U+2028 in the subtitle file.
Escaped ==
  Instr(Mpv, << Ord("<"), Ord("x"), Ord(">"), Ord("&") >>, << >>, << >>,
        << 8, 12, 1 >>, << Ord("\""), Ord("\\"), 226, 128, 168 >>)

\* An mpv instruction whose URL spells an option of mpv and whose optional
\* fields are empty: the URL is passed on as it is.
Injected ==
  Instr(Mpv, GeometryFlag \o S(<< "9" >>), << >>, << >>, << >>, << >>)

\* What a JSON array of a batch can hold: instruction objects and null.
Elements == {Ptr(p) : p \in Instructions} \cup {NilPtr}

\* Every batch of up to MaxBatch elements, and the batches of three whose
\* middle element is one the loop does not launch (null, or the instruction
\* for the unregistered player).
Batches ==
  UNION {[1..n -> Elements] : n \in 0..MaxBatch}
  \cup {<< Ptr(a), e, Ptr(b) >> :
          a \in Instructions, b \in Instructions,
          e \in {NilPtr} \cup {Ptr(p) : p \in {q \in Instructions : q.Target \notin {Mpv, PotPlayer}}}}

\* Payload texts that are no array of objects and no object, or an object
\* with a wrongly typed or differently cased member, or one between
\* non-ASCII spaces (U+00A0, U+3000) with a \u escape and a key written with
\* U+017F.
OddTexts ==
  { S(<< "n", "u", "l", "l" >>),
    S(<< "1" >>),
    S(<< "\"", "x", "\"" >>),
    S(<< "{" >>),
    S(<< "[", "1", "]" >>),
    S(<< "[", "{", "\"", "m", "o", "d", "e", "\"", ":", "\"", "m", "p", "v", "\"", "}",
         ",", "1", "]" >>),
    S(<< "{", "\"", "m", "o", "d", "e", "\"", ":", "1", "}" >>),
    S(<< " ", "{", "\"", "M", "o", "d", "e", "\"", ":", "\"", "m", "p", "v", "\"", ",",
         "\"", "x", "\"", ":", "[", "1", "]", "}", " " >>),
    << 194, 160 >>
    \o S(<< "{", "\"", "m", "\\", "u", "0", "0", "6", "f", "d", "e", "\"", ":",
            "\"", "m", "p", "v", "\"", ",", "\"" >>)
    \o << 197, 191 >>
    \o S(<< "u", "b", "\"", ":", "\"", "s", "\"", "}" >>)
    \o << 227, 128, 128 >> }

\* Characters of a hand-typed text: a letter and a digit, both spellings of
\* 62 and of 63, padding, and a character outside every alphabet.
TypedChars ==
  {Ord("W"), Ord("1"), Ord("-"), Ord("_"), Ord("+"), Ord("/"), Ord("="), Ord(" ")}

TypedTexts == UNION {[1..n -> TypedChars] : n \in 0..MaxLen}

\* Runes outside every class of the sanitizer switch: two control
\* characters (NUL, line feed) and two non-ASCII runes (U+00E9, U+20AC).
NoiseRunes == {0, 10, 233, 8364}

\* Hand-typed texts of those runes around an alphanumeric.
NoisyTexts == UNION {[1..n -> NoiseRunes \cup {Ord("W")}] : n \in 0..MaxLen}

OtherScheme == S(<< "m", "p", "v", ":", "/", "/" >>)

Input(kind, batch, uri) == [kind |-> kind, batch |-> batch, uri |-> uri]

\* kind: what the producer encoded (batch: a JSON array of batch; single:
\* the one object of batch; text, typed: no instruction list), or noscheme
\* for a batch sent without or under another scheme prefix.  Every input
\* is sent unpadded; batches of at most one element and single objects are
\* sent padded as well.
Inputs ==
  {Input("batch", b, Prefix \o EncodeURL(MarshalList(b, short), FALSE)) :
      b \in Batches, short \in BOOLEAN}
  \cup {Input("batch", b, Prefix \o EncodeURL(MarshalList(b, short), TRUE)) :
      b \in {x \in Batches : Len(x) <= 1}, short \in BOOLEAN}
  \cup {Input("batch", << Ptr(p) >>,
                Prefix \o EncodeURL(MarshalList(<< Ptr(p) >>, short), FALSE)) :
      p \in {Escaped, Injected}, short \in BOOLEAN}
  \cup {Input("single", << Ptr(p) >>, Prefix \o EncodeURL(MarshalPayload(p, short), pad)) :
      p \in Instructions \cup {Escaped}, pad \in BOOLEAN, short \in BOOLEAN}
  \cup {Input("text", << >>, Prefix \o EncodeURL(x, FALSE)) : x \in OddTexts}
  \cup {Input("typed", << >>, Prefix \o x) : x \in TypedTexts \cup NoisyTexts}
  \cup {Input("noscheme", << Ptr(p) >>, pre \o EncodeURL(MarshalList(<< Ptr(p) >>, short), FALSE)) :
      p \in Instructions, pre \in {<< >>, OtherScheme}, short \in BOOLEAN}

MpvExe == S(<< "m", "p", "v", ".", "e", "x", "e" >>)

PotExe == S(<< "C", ":", "\\", "p", "o", "t", ".", "e", "x", "e" >>)

\* loadConfig: each player path is set or empty, logging is on or off.  The
\* mpv path is a bare program name, the potplayer path a full path.
Configs ==
  [MpvPath : {<< >>, MpvExe}, PotPath : {<< >>, PotExe}, EnableLog : BOOLEAN]

(***************************************************************************)
(* State of one invocation of main in run mode.                            *)
(***************************************************************************)
VARIABLES
  input,     \* what was sent (not read by the program)
  rawURI,    \* os.Args[1]
  cfg,       \* loadConfig()
  pc,        \* "parse", "loop", "sleep", "exit" (returned), "panic"
  res,       \* what parsePayload returned
  i,         \* the loop index
  cmd,       \* the command of the loop body, from the handler to the delay
  starts,    \* the cmd.Start() calls made, in order: element, arguments, result
  logCalls,  \* the messages passed to writeLog, in order
  logFile    \* the lines appended to the log file

vars == << input, rawURI, cfg, pc, res, i, cmd, starts, logCalls, logFile >>

Msg(tag, idx, err, text) == [tag |-> tag, idx |-> idx, err |-> err, text |-> text]

\* writeLog: nothing is written when logging is off, or when the log file
\* cannot be opened (opened is whether os.OpenFile returned no error).
writeLog(c, file, msg, opened) ==
  IF ~c.EnableLog THEN file
  ELSE IF opened THEN Append(file, msg)
  ELSE file

\* A call of writeLog: each call opens the log file anew.
Log(msg) ==
  /\ logCalls' = Append(logCalls, msg)
  /\ \E opened \in BOOLEAN : logFile' = writeLog(cfg, logFile, msg, opened)

NotParsed == ParseResult(NoError, << >>, << >>, << >>, << >>, << >>)

\* No command: cmd is declared in the loop body and lives for one iteration.
NoCmd == [Path |-> << >>, Args |-> << >>, Err |-> FALSE]

Init ==
  /\ input \in Inputs
  /\ rawURI = input.uri
  /\ cfg \in Configs
  /\ pc = "parse"
  /\ res = NotParsed
  /\ i = 0
  /\ cmd = NoCmd
  /\ starts = << >>
  /\ logCalls = << >>
  /\ logFile = << >>

payloads == res.results

\* The switch on p.Target: the configured path and whether a case matched.
BinPathFor(c, target) ==
  IF target = Mpv THEN [known |-> TRUE, binPath |-> c.MpvPath]
  ELSE IF target = PotPlayer THEN [known |-> TRUE, binPath |-> c.PotPath]
  ELSE [known |-> FALSE, binPath |-> << >>]

\* An instruction the loop body launches: neither continue is taken.
Launchable(c, p) ==
  /\ BinPathFor(c, p.Target).known
  /\ BinPathFor(c, p.Target).binPath # << >>
  /\ p.Target \in DOMAIN Handlers

\* payloads, err := parsePayload(arg); on an error log it and return.
Parse ==
  /\ pc = "parse"
  /\ res' = parsePayload(rawURI)
  /\ IF res'.err.kind # "none"
     THEN /\ Log(Msg("Protocol Error", -1, res'.err, << >>))
          /\ pc' = "exit"
     ELSE /\ pc' = "loop"
          /\ UNCHANGED << logCalls, logFile >>
  /\ UNCHANGED << input, rawURI, cfg, i, cmd, starts >>

\* The range loop is over: main returns.
LoopEnd ==
  /\ pc = "loop"
  /\ i >= Len(payloads)
  /\ pc' = "exit"
  /\ UNCHANGED << input, rawURI, cfg, res, i, cmd, starts, logCalls, logFile >>

\* p.Target of a nil *Payload: the runtime panics and the process dies.
NilDereference ==
  /\ pc = "loop"
  /\ i < Len(payloads)
  /\ payloads[i + 1].nil
  /\ pc' = "panic"
  /\ UNCHANGED << input, rawURI, cfg, res, i, cmd, starts, logCalls, logFile >>

\* An iteration that ends in a continue: unknown target, missing path, or
\* (silently) no handler.
Skip ==
  /\ pc = "loop"
  /\ i < Len(payloads)
  /\ ~payloads[i + 1].nil
  /\ LET p == payloads[i + 1].v
         bin == BinPathFor(cfg, p.Target)
     IN  /\ ~Launchable(cfg, p)
         /\ IF ~bin.known
            THEN Log(Msg("Unknown Target", i, NoError, << p.Target >>))
            ELSE IF bin.binPath = << >>
            THEN Log(Msg("Path missing", i, NoError, << p.Target >>))
            ELSE UNCHANGED << logCalls, logFile >>
  /\ i' = i + 1
  /\ UNCHANGED << input, rawURI, cfg, pc, res, cmd, starts >>

\* The launching iteration with a continue after the Start Error log, which
\* skips the delay.
LaunchNoDelayOnError ==
  /\ pc = "loop"
  /\ i < Len(payloads)
  /\ ~payloads[i + 1].nil
  /\ LET p == payloads[i + 1].v
         binPath == BinPathFor(cfg, p.Target).binPath
         launching == Msg("Launching", i, NoError, << p.Title, p.Geometry >>)
         startError == Msg("Start Error", i, NoError, << >>)
     IN  /\ Launchable(cfg, p)
         /\ \E look \in Lookups(binPath), ok \in BOOLEAN, opened1 \in BOOLEAN,
               opened2 \in BOOLEAN :
              /\ look.err => ~ok
              /\ \E path \in StartPaths(CallHandler(Handlers[p.Target], binPath, p, look)) :
                   cmd' = IF ok
                          THEN [CallHandler(Handlers[p.Target], binPath, p, look)
                                  EXCEPT !.Path = path]
                          ELSE NoCmd
              /\ starts' = Append(starts,
                                  [idx |-> i,
                                   args |-> CallHandler(Handlers[p.Target], binPath, p, look).Args,
                                   ok |-> ok])
              /\ logCalls' = logCalls \o << launching >>
                               \o (IF ok THEN << >> ELSE << startError >>)
              /\ logFile' = IF ok THEN writeLog(cfg, logFile, launching, opened1)
                            ELSE writeLog(cfg, writeLog(cfg, logFile, launching, opened1),
                                          startError, opened2)
              /\ pc' = IF ok THEN "sleep" ELSE "loop"
              /\ i' = IF ok THEN i ELSE i + 1
  /\ UNCHANGED << input, rawURI, cfg, res >>

\* An iteration that builds the command, logs the launch and calls
\* cmd.Start(), which returns the error of the lookup if there is one, and
\* which the operating system lets succeed or fail otherwise, and which
\* may rewrite cmd.Path (StartPaths).  Each call of the handler looks the
\* path up anew and each writeLog opens the log file anew.
Launch ==
  /\ pc = "loop"
  /\ i < Len(payloads)
  /\ ~payloads[i + 1].nil
  /\ LET p == payloads[i + 1].v
         binPath == BinPathFor(cfg, p.Target).binPath
         launching == Msg("Launching", i, NoError, << p.Title, p.Geometry >>)
         startError == Msg("Start Error", i, NoError, << >>)
     IN  /\ Launchable(cfg, p)
         /\ \E look \in Lookups(binPath), ok \in BOOLEAN, opened1 \in BOOLEAN,
               opened2 \in BOOLEAN :
              /\ look.err => ~ok
              /\ \E path \in StartPaths(CallHandler(Handlers[p.Target], binPath, p, look)) :
                   cmd' = [CallHandler(Handlers[p.Target], binPath, p, look)
                             EXCEPT !.Path = path]
              /\ starts' = Append(starts, [idx |-> i, args |-> cmd'.Args, ok |-> ok])
              /\ logCalls' = logCalls \o << launching >>
                               \o (IF ok THEN << >> ELSE << startError >>)
              /\ logFile' = IF ok THEN writeLog(cfg, logFile, launching, opened1)
                            ELSE writeLog(cfg, writeLog(cfg, logFile, launching, opened1),
                                          startError, opened2)
  /\ pc' = "sleep"
  /\ UNCHANGED << input, rawURI, cfg, res, i >>

\* time.Sleep(50 * time.Millisecond), then the next element: the iteration
\* is over and its cmd is gone.
Sleep ==
  /\ pc = "sleep"
  /\ pc' = "loop"
  /\ i' = i + 1
  /\ cmd' = NoCmd
  /\ UNCHANGED << input, rawURI, cfg, res, starts, logCalls, logFile >>

Next == Parse \/ LoopEnd \/ NilDereference \/ Skip \/ Launch \/ Sleep

Spec == Init /\ [][Next]_vars

TypeOK ==
  /\ pc \in {"parse", "loop", "sleep", "exit", "panic"}
  /\ i \in 0..Len(payloads)
  /\ Len(starts) <= Len(payloads)
  /\ pc # "sleep" => cmd = NoCmd


(***************************************************************************)
(* Vocabulary of the properties.                                           *)
(***************************************************************************)
\* The invocation is over: main returned or the runtime killed the process.
Terminated == pc \in {"exit", "panic"}

\* The text after the scheme prefix, as the producer sent it.
SentStr == TrimPrefix(rawURI, Prefix)

\* Element k (from 0) of the decoded list is an instruction the Dispatcher
\* can dispatch: its target is recognized and its configured path is set.
Dispatchable(k) == ~payloads[k + 1].nil /\ Launchable(cfg, payloads[k + 1].v)

\* Element k (from 0) is an instruction the Dispatcher skips.
Skipped(k) == ~payloads[k + 1].nil /\ ~Launchable(cfg, payloads[k + 1].v)

\* The loop body has been entered for element k (from 0).
Examined(k) == i > k \/ (i = k /\ pc \in {"sleep", "panic"})

\* The number of process starts attempted for element k (from 0).
Attempts(k) == Cardinality({n \in 1..Len(starts) : starts[n].idx = k})

\* The element indices of the start attempts, in the order of the attempts.
StartOrder == AsSeq([n \in 1..Len(starts) |-> starts[n].idx])

\* The indices 0 .. n-1 in order.
Indices(n) == AsSeq([k \in 1..n |-> k - 1])

\* C1: when the invocation ends in a whole-payload error (the URI lacks the
\* scheme prefix, the sanitized text is not Base64, or the decoded text is
\* neither an array of instructions nor an instruction object) no process
\* start is ever attempted; and no start is attempted before the payload
\* has been decoded.  (What the URI decodes to is looked at when the loop
\* stands before the first start: the URI does not change afterwards.)
C1_PayloadErrorStartsNothing ==
  /\ res.err.kind # "none" => (starts = << >> /\ pc = "exit")
  /\ pc = "parse" => starts = << >>
  /\ (starts = << >> /\ pc = "loop" /\ i < Len(payloads) /\ Dispatchable(i)) =>
        /\ res.err.kind = "none"
        /\ HasPrefix(rawURI, Prefix)
        /\ LET decoded == DecodeString(Sanitize(SentStr))
           IN  /\ ~decoded.err
               /\ ParseJSON(CleanJSON(decoded.data)).v.t \in {"arr", "obj"}

\* C1 witness: the invocation ended on a JSON error although the array
\* attempt had decoded a dispatchable instruction before it failed.
C1_Witness ==
  /\ pc = "exit"
  /\ res.err.kind = "json"
  /\ UnmarshalSlice(res.jsonStr, << >>).results # << >>
  /\ cfg.MpvPath # << >>
  /\ starts = << >>

\* C2: a skipped instruction (unrecognized target or empty path) never
\* prevents the others from launching: by the end of the invocation every
\* dispatchable instruction of the batch has had a start attempt, before or
\* after the skipped one.
C2_SkipPreventsNothing ==
  (Terminated /\ res.err.kind = "none"
     /\ \E k \in 0..(Len(payloads) - 1) : Skipped(k))
  => \A m \in 0..(Len(payloads) - 1) : Dispatchable(m) => Attempts(m) >= 1

\* C3: a failed process start is not fatal: every instruction the loop has
\* passed keeps exactly the one attempt it was given (none is repeated or
\* rolled back), and after a failed start the Dispatcher still reaches every
\* later instruction of the list.
C3_StartFailureNotFatal ==
  /\ \A k \in 0..(Len(payloads) - 1) : Attempts(k) <= 1
  /\ \A k \in 0..(i - 1) : Dispatchable(k) => Attempts(k) = 1
  /\ Terminated =>
       \A n \in 1..Len(starts) : ~starts[n].ok =>
         \A m \in (starts[n].idx + 1)..(Len(payloads) - 1) :
            ~payloads[m + 1].nil => Examined(m)

\* C4: once decoding succeeds the loop runs to completion whatever the
\* elements hold: the process never dies in the loop, and it returns only
\* after the last element has been examined.
C4_DispatchCompletes ==
  /\ pc # "panic"
  /\ (pc = "exit" /\ res.err.kind = "none") => i = Len(payloads)

\* C5: when parsePayload returns without an error the list it returns holds
\* at least one instruction.
C5_SuccessIsNonEmpty ==
  (pc # "parse" /\ res.err.kind = "none") => Len(res.results) >= 1

\* C6: a list of instructions serialized as a JSON array and URL-safe
\* Base64 encoded comes back from parsePayload without an error as the same
\* instructions, in the same order and number.
C6_BatchRoundTrip ==
  (input.kind = "batch" /\ pc # "parse"
     /\ \A k \in 1..Len(input.batch) : ~input.batch[k].nil)
  => /\ res.err.kind = "none"
     /\ Len(res.results) = Len(input.batch)
     /\ \A k \in 1..Len(input.batch) : res.results[k] = input.batch[k]

\* C6 witness: three different instructions, sent unpadded in a text that
\* uses the URL-safe spelling of 62 or 63, have been decoded.
C6_Witness ==
  /\ input.kind = "batch"
  /\ pc = "exit"
  /\ Len(input.batch) = 3
  /\ \A k \in 1..3 : ~input.batch[k].nil
  /\ Cardinality({input.batch[k] : k \in 1..3}) = 3
  /\ \E k \in 1..Len(SentStr) : SentStr[k] \in {Ord("-"), Ord("_")}
  /\ Len(SentStr) % 4 # 0
  /\ res.results = input.batch

\* C7: a single instruction object comes back as the one-element list of
\* that instruction, and the array attempt that ran first on the same text
\* failed and left no element behind.
C7_SingleObjectIsOneElementList ==
  (input.kind = "single" /\ pc # "parse")
  => /\ res.err.kind = "none"
     /\ res.results = input.batch
     /\ Len(res.results) = 1
     /\ UnmarshalSlice(res.jsonStr, << >>).err
     /\ UnmarshalSlice(res.jsonStr, << >>).results = << >>

\* C7 witness: a single mpv instruction with every optional field set has
\* been decoded and launched.
C7_Witness ==
  /\ input.kind = "single"
  /\ pc = "exit"
  /\ Len(res.results) = 1
  /\ res.results[1].v.Sub # << >>
  /\ Len(starts) = 1

\* C8: at the end of the invocation the start attempts are, in the order
\* they were made, exactly the dispatchable instructions of the decoded
\* list in list order, one attempt each.
C8_StartsAreTheDispatchable ==
  (Terminated /\ res.err.kind = "none")
  => StartOrder = SelectSeq(Indices(Len(payloads)), LAMBDA k : Dispatchable(k))

\* The instruction a recorded start was made for.
OwnOf(n) == payloads[starts[n].idx + 1].v

\* The path the configuration holds for a recognized target.
ConfiguredPath(target) == IF target = Mpv THEN cfg.MpvPath ELSE cfg.PotPath

\* The arguments of an argument vector after the program name.
Arguments(args) == SubSeq(args, 2, Len(args))

\* The arguments of an argument vector after the program name and the URL.
FlagArgs(args) == SubSeq(args, 3, Len(args))

\* The flag called name is among flags exactly when value is set, and then
\* with that value.
Carries(flags, name, value) ==
  /\ (value # << >>) <=> \E a \in 1..Len(flags) : HasPrefix(flags[a], name)
  /\ \A a \in 1..Len(flags) : HasPrefix(flags[a], name) => flags[a] = name \o value

IsSeparator(c) == c \in {Ord("/"), Ord("\\")}

\* path is the file that name names: name itself or, for a name without
\* directory and drive, name in some directory, and in both cases with at
\* most one extension added.
NamesFile(path, name) ==
  \E a \in 0..(Len(path) - Len(name)) :
    /\ SubSeq(path, a + 1, a + Len(name)) = name
    /\ a > 0 => /\ IsSeparator(path[a])
                /\ \A k \in 1..Len(name) : ~IsSeparator(name[k]) /\ name[k] # Ord(":")
    /\ LET ext == SubSeq(path, a + Len(name) + 1, Len(path))
       IN  ext # << >> =>
             /\ ext[1] = Ord(".")
             /\ Len(ext) >= 2
             /\ \A k \in 2..Len(ext) : IsUpper(ext[k]) \/ IsLower(ext[k]) \/ IsDigit(ext[k])

\* The start made last, in the state it leaves, where cmd is its command.
\* The formulas about the command of a start are stated of it there.
JustStarted == IF pc = "sleep" THEN {Len(starts)} ELSE {}

\* The command built for the instruction own under configuration c is
\* built from that instruction and c alone: the program name is the
\* configured path of own's target, the program that path names, the first
\* argument own's URL, and the arguments after it the flags of own's fields.
BuiltFrom(command, own, c) ==
  /\ own.Target \in {Mpv, PotPlayer}
  /\ command.Args[1] = (IF own.Target = Mpv THEN c.MpvPath ELSE c.PotPath)
  /\ command.Args[1] # << >>
  /\ NamesFile(command.Path, command.Args[1])
  /\ command.Args[2] = own.Url
  /\ own.Target = PotPlayer => Len(command.Args) = 2
  /\ own.Target = Mpv =>
       /\ Carries(FlagArgs(command.Args), ProfileFlag, own.Profile)
       /\ Carries(FlagArgs(command.Args), GeometryFlag, own.Geometry)
       /\ Carries(FlagArgs(command.Args), TitleFlag, own.Title)
       /\ Carries(FlagArgs(command.Args), SubFlag, own.Sub)
       /\ Len(FlagArgs(command.Args))
            = Cardinality({f \in {"Profile", "Geometry", "Title", "Sub"} : own[f] # << >>})

\* C9 as stated: the executable of every command started is the very path
\* the configuration holds for the target of its instruction, and for mpv
\* the argument vector holds --geometry=<g> (resp. the profile, title and
\* subtitle flag) exactly when the instruction's own field is non-empty, and
\* then with the instruction's own value.
C9_ConfiguredPathAndFlagsAnywhere ==
  \A n \in JustStarted :
    /\ cmd.Path = ConfiguredPath(OwnOf(n).Target)
    /\ OwnOf(n).Target = Mpv =>
         /\ Carries(Arguments(cmd.Args), ProfileFlag, OwnOf(n).Profile)
         /\ Carries(Arguments(cmd.Args), GeometryFlag, OwnOf(n).Geometry)
         /\ Carries(Arguments(cmd.Args), TitleFlag, OwnOf(n).Title)
         /\ Carries(Arguments(cmd.Args), SubFlag, OwnOf(n).Sub)

\* C9 as amended: every launch is built from its own instruction and the
\* read-only configuration.  The program name of the command is the
\* configured path of the instruction's target, and the executable is that
\* path or the file a lookup finds for it (the same file name, in a
\* directory if the path is a bare name, with or without an added
\* extension); the first argument is the instruction's URL as it is; for
\* mpv the arguments after the URL hold each optional flag (--geometry= and
\* the others) exactly when the instruction's own field is non-empty, with
\* the instruction's own value; potplayer gets nothing but the URL.
C9_LaunchBuiltFromOwnInstruction ==
  \A n \in JustStarted :
    /\ starts[n].idx = i
    /\ i < Len(payloads)
    /\ ~payloads[i + 1].nil
    /\ starts[n].args = cmd.Args
    /\ BuiltFrom(cmd, payloads[i + 1].v, cfg)

\* C9 witness: two mpv instructions with different geometry values have
\* both been started, each with its own geometry flag after the URL, and
\* the executable of the second is a file the search found for the
\* configured name, with an extension added.
C9_Witness ==
  /\ Len(starts) = 2
  /\ pc = "sleep"
  /\ payloads[1].v.Target = Mpv
  /\ payloads[2].v.Target = Mpv
  /\ payloads[1].v.Geometry # payloads[2].v.Geometry
  /\ payloads[1].v.Profile = << >>
  /\ GeometryFlag \o payloads[1].v.Geometry \in {starts[1].args[a] : a \in 3..Len(starts[1].args)}
  /\ GeometryFlag \o payloads[2].v.Geometry \in {starts[2].args[a] : a \in 3..Len(starts[2].args)}
  /\ cmd.Args[1] = cfg.MpvPath
  /\ cmd.Path = SearchDir \o cfg.MpvPath \o PathExt

\* A character of the URL-safe Base64 alphabet.
UrlSafeChar(c) == IsUpper(c) \/ IsLower(c) \/ IsDigit(c) \/ c \in {Ord("-"), Ord("_")}

\* The standard-alphabet spelling of a URL-safe text: every '-' replaced
\* by '+' and every '_' by '/'.
StdEquivalent(s) ==
  AsSeq([k \in 1..Len(s) |->
           IF s[k] = Ord("-") THEN Ord("+")
           ELSE IF s[k] = Ord("_") THEN Ord("/") ELSE s[k]])

\* C10: on a text of the URL-safe alphabet the Sanitizer maps '-' to '+'
\* and '_' to '/' and keeps every other character, so that decoding the
\* sanitized text gives what standard Base64 decoding gives on the padded
\* standard-alphabet equivalent of the text: the same bytes, or an error
\* where that one is an error.  (Compared in the state parsePayload leaves;
\* the loop does not change its result.)
C10_UrlSafeDecodesAsStandard ==
  (pc # "parse" /\ i = 0 /\ starts = << >> /\ HasPrefix(rawURI, Prefix)
     /\ \A k \in 1..Len(SentStr) : UrlSafeChar(SentStr[k]))
  => /\ Clean(SentStr) = StdEquivalent(SentStr)
     /\ res.cleanStr = PadB64(StdEquivalent(SentStr))
     /\ LET std == DecodeString(PadB64(StdEquivalent(SentStr)))
        IN  IF std.err THEN res.err.kind = "base64"
            ELSE res.err.kind # "base64" /\ res.data = std.data

\* C10 witness: a text with both URL-safe characters, '-' and '_', has been
\* sanitized and decoded into bytes.
C10_Witness ==
  /\ pc # "parse"
  /\ HasPrefix(rawURI, Prefix)
  /\ \A k \in 1..Len(SentStr) : UrlSafeChar(SentStr[k])
  /\ \E k \in 1..Len(SentStr) : SentStr[k] = Ord("-")
  /\ \E k \in 1..Len(SentStr) : SentStr[k] = Ord("_")
  /\ res.err.kind # "base64"
  /\ res.data # << >>

\* A character of the standard Base64 alphabet other than '/'.
StdNoSlashChar(c) == IsUpper(c) \/ IsLower(c) \/ IsDigit(c) \/ c = Ord("+")

\* The number of '=' that brings a length of n to a multiple of four.
PadCount(n) == (4 - (n % 4)) % 4

\* C11: on a text of alphanumerics and '+' the Sanitizer is a no-op up to
\* padding: its output is the text followed by just the '=' that reach a
\* multiple of four, sanitizing that output again changes nothing, and the
\* decode of the sanitized text is the standard decode of the padded
\* original.  (Compared in the state parsePayload leaves.)
C11_StandardAlphabetIsKept ==
  (pc # "parse" /\ i = 0 /\ starts = << >> /\ HasPrefix(rawURI, Prefix)
     /\ \A k \in 1..Len(SentStr) : StdNoSlashChar(SentStr[k]))
  => /\ res.rawStr = SentStr
     /\ res.cleanStr = SentStr \o SeqRepeat(PadChar, PadCount(Len(SentStr)))
     /\ Sanitize(res.cleanStr) = res.cleanStr
     /\ LET std == DecodeString(SentStr \o SeqRepeat(PadChar, PadCount(Len(SentStr))))
        IN  IF std.err THEN res.err.kind = "base64"
            ELSE res.err.kind # "base64" /\ res.data = std.data

\* C11 witness: a text with a '+' whose length is no multiple of four has
\* been sanitized and decoded into bytes.
C11_Witness ==
  /\ pc # "parse"
  /\ HasPrefix(rawURI, Prefix)
  /\ \A k \in 1..Len(SentStr) : StdNoSlashChar(SentStr[k])
  /\ \E k \in 1..Len(SentStr) : SentStr[k] = Ord("+")
  /\ Len(SentStr) % 4 # 0
  /\ Len(res.cleanStr) = Len(SentStr) + PadCount(Len(SentStr))
  /\ res.err.kind # "base64"
  /\ res.data # << >>

\* The number of occurrences of the character c in s.
Count(s, c) == Len(SelectSeq(s, LAMBDA x : x = c))

\* C12: the Sanitizer discards every bare '/': the only '/' of its output
\* come from the '_' of the input, so the output is what the input without
\* its '/' characters sanitizes to.  (Compared in the state parsePayload
\* leaves.)
C12_BareSlashIsDiscarded ==
  (pc # "parse" /\ i = 0 /\ starts = << >> /\ HasPrefix(rawURI, Prefix))
  => /\ Count(res.cleanStr, Ord("/")) = Count(SentStr, Ord("_"))
     /\ res.cleanStr = Sanitize(SelectSeq(SentStr, LAMBDA x : x # Ord("/")))

\* The characters the sanitizer switch has a case for.
Recognised(c) ==
  IsUpper(c) \/ IsLower(c) \/ IsDigit(c) \/ c \in {Ord("-"), Ord("+"), Ord("_"), Ord("/")}

\* s is n characters of the standard Base64 alphabet followed by fewer than
\* four '=' and nothing else, a multiple of four long.
WellFormed(s, n) ==
  /\ n <= Len(s)
  /\ Len(s) % 4 = 0
  /\ Len(s) - n < 4
  /\ \A k \in 1..n :
       IsUpper(s[k]) \/ IsLower(s[k]) \/ IsDigit(s[k]) \/ s[k] \in {Ord("+"), Ord("/")}
  /\ \A k \in (n + 1)..Len(s) : s[k] = PadChar

\* C13: sanitization is total and well-formed: whatever the text after the
\* prefix holds (quotes, whitespace, control and non-ASCII characters), the
\* sanitizer yields a string, one character of the standard alphabet for
\* each character it recognises and none for any other, followed by the
\* '=' that reach a multiple of four; an error can only come from the
\* decoding after it.  (Stated of what parsePayload returned, in the states
\* before the loop moves: res does not change after them.)
C13_SanitizedIsWellFormed ==
  (pc # "parse" /\ i = 0 /\ starts = << >> /\ HasPrefix(rawURI, Prefix))
  => /\ res.rawStr = SentStr
     /\ WellFormed(res.cleanStr, Len(SelectSeq(SentStr, Recognised)))
     /\ res.err.kind # "scheme"

\* C13 witness: a text with a control character, a non-ASCII rune and one
\* alphanumeric has been sanitized to that alphanumeric and three '='.
C13_Witness ==
  /\ pc # "parse"
  /\ HasPrefix(rawURI, Prefix)
  /\ \E k \in 1..Len(SentStr) : SentStr[k] < 32
  /\ \E k \in 1..Len(SentStr) : SentStr[k] > 127
  /\ \E k \in 1..Len(SentStr) : IsUpper(SentStr[k])
  /\ Len(res.cleanStr) = 4
  /\ res.cleanStr[2] = PadChar

\* C14: when Base64 decoding of the sanitized string fails, the error that
\* parsePayload returns carries both the raw string (the text after the
\* prefix, before sanitization) and the cleaned string.
C14_DecodeErrorCarriesRawAndClean ==
  (pc # "parse" /\ res.err.kind = "base64")
  => /\ \E a \in 1..Len(res.err.carries) : res.err.carries[a] = SentStr
     /\ \E a \in 1..Len(res.err.carries) : res.err.carries[a] = res.cleanStr

\* Which of the optional flags of mpv the argument arg spells, numbered in
\* the order the builder looks at the fields (profile, geometry, title,
\* subtitle), 0 for none.
FlagRank(arg) ==
  IF HasPrefix(arg, ProfileFlag) THEN 1
  ELSE IF HasPrefix(arg, GeometryFlag) THEN 2
  ELSE IF HasPrefix(arg, TitleFlag) THEN 3
  ELSE IF HasPrefix(arg, SubFlag) THEN 4
  ELSE 0

\* The ranks of the arguments of a command, 0 for the program and the URL
\* where they spell no flag.
Ranks(args) == AsSeq([a \in 1..Len(args) |-> FlagRank(args[a])])

\* The ranks from position a on are above 0 and increase.
FlagsInOrder(ranks, a) ==
  /\ \A b \in a..Len(ranks) : ranks[b] > 0
  /\ \A b \in a..Len(ranks) : \A c \in (b + 1)..Len(ranks) : ranks[b] < ranks[c]

\* C15 as stated: in every command started, the URL is the last argument,
\* every optional flag of mpv standing ahead of it, and the potplayer
\* command is the program and the bare URL only.
C15_UrlIsLastArgument ==
  \A n \in JustStarted :
    /\ starts[n].args[Len(starts[n].args)] = OwnOf(n).Url
    /\ \A a \in 2..(Len(starts[n].args) - 1) : FlagRank(starts[n].args[a]) > 0
    /\ OwnOf(n).Target = PotPlayer => Len(starts[n].args) = 2

\* C15 as amended: in every command started, the URL is the first argument
\* after the program, every optional flag of mpv follows it, in the order
\* profile, geometry, title, subtitle, and the potplayer command is the
\* program and the bare URL only, whatever the optional fields hold.
C15_UrlIsFirstArgument ==
  \A n \in JustStarted :
    /\ Len(starts[n].args) >= 2
    /\ starts[n].args[2] = OwnOf(n).Url
    /\ FlagsInOrder(Ranks(starts[n].args), 3)
    /\ OwnOf(n).Target = PotPlayer => Len(starts[n].args) = 2

\* C15 witness: an mpv instruction with all four optional fields and a
\* potplayer instruction with a title have both been started.
C15_Witness ==
  /\ Len(starts) = 2
  /\ OwnOf(1).Target = Mpv
  /\ Len(starts[1].args) = 6
  /\ starts[1].args[2] = OwnOf(1).Url
  /\ starts[1].args[6] = SubFlag \o OwnOf(1).Sub
  /\ OwnOf(2).Target = PotPlayer
  /\ OwnOf(2).Title # << >>
  /\ starts[2].args = << cfg.PotPath, OwnOf(2).Url >>

\* C16: launch pacing.  A step that attempts a process start, whether the
\* start succeeds or fails, leaves the delay pending on the same element;
\* while the delay is pending the only step is the delay itself, which
\* starts nothing, and only it moves the loop to the next element.  So two
\* start attempts are never back to back.
C16_DelayAfterEveryStart ==
  [][ /\ starts' # starts =>
           /\ pc = "loop"
           /\ pc' = "sleep"
           /\ i' = i
           /\ Len(starts') = Len(starts) + 1
      /\ pc = "sleep" =>
           /\ starts' = starts
           /\ pc' = "loop"
           /\ i' = i + 1 ]_vars

\* C16 witness: a failed start was followed by the delay and by a second
\* start attempt, whose delay is now pending.
C16_Witness ==
  /\ Len(starts) = 2
  /\ ~starts[1].ok
  /\ starts[1].idx < starts[2].idx
  /\ pc = "sleep"
  /\ i = starts[2].idx

\* writeLog has been called with a message of this tag for element k.
Logged(tag, k) ==
  \E m \in 1..Len(logCalls) : logCalls[m].tag = tag /\ logCalls[m].idx = k

\* The target of element k (from 0) of the decoded list.
TargetOf(k) == payloads[k + 1].v.Target

\* The decoded text is neither a JSON array nor a JSON object.
NeitherArrayNorObject(text) == text = << >> \/ text[1] \notin {Ord("["), Ord("{")}

\* C17: all errors are logged.  A whole-payload error (an error of
\* parsePayload, or a decoded text that is neither a JSON array nor a JSON
\* object) has had its writeLog call from the step of the parse on; every
\* instruction the loop has moved past with an unrecognized target, an
\* empty path or no builder has had a writeLog call naming it; and every
\* failed process start has had its writeLog call, from the step of the
\* start on.
C17_EveryErrorIsLogged ==
  /\ (pc # "parse" /\ (res.err.kind # "none" \/ NeitherArrayNorObject(res.jsonStr)))
       => Logged("Protocol Error", -1)
  /\ \A k \in 0..(i - 1) : ~payloads[k + 1].nil =>
       /\ TargetOf(k) \notin {Mpv, PotPlayer} => Logged("Unknown Target", k)
       /\ (TargetOf(k) \in {Mpv, PotPlayer} /\ ConfiguredPath(TargetOf(k)) = << >>)
            => Logged("Path missing", k)
       /\ (TargetOf(k) \in {Mpv, PotPlayer} /\ ConfiguredPath(TargetOf(k)) # << >>
             /\ TargetOf(k) \notin DOMAIN Handlers)
            => \E m \in 1..Len(logCalls) : logCalls[m].idx = k
  /\ \A n \in 1..Len(starts) : ~starts[n].ok => Logged("Start Error", starts[n].idx)

====
